---- MODULE Spec2Model ----
(***************************************************************************)
(* Client-side session layer of the chat front-end: the axios instance of  *)
(* ApiService with its request and response interceptors (token attach,    *)
(* refresh on 401, retry once), login, register, logout, the streaming     *)
(* chat request, the auth hook (startup check, logout mutation) and the    *)
(* queries and mutations of the useLLM / useConversation hooks.            *)
(*                                                                         *)
(* JavaScript runs every continuation to completion: one step of the model *)
(* is either a call made by the UI, or the arrival of one HTTP response    *)
(* together with every promise continuation that runs until all tasks wait *)
(* on the network again.                                                   *)
(***************************************************************************)
EXTENDS Integers, Sequences, FiniteSets, TLC

\* ---- bounds ----
MaxReq == 3          \* HTTP requests (axios configs) created in one run
MaxDeepReq == 5      \* the same, in the runs restricted to queries and logout
MaxCalls == 2        \* operations started by the UI in one run
MaxNest == 2         \* refresh calls kept per chain under the always-401 server
MaxTok == 2          \* distinct token / response bodies the server hands out
MaxSessReq == 3      \* HTTP requests of one run of the session operations
MaxSessCalls == 2    \* session operations started by the UI in one run
MaxCacheReq == 3     \* HTTP requests of one run of the cache operations
MaxCacheCalls == 2   \* fetches started by the UI in one run
MaxMutations == 1    \* mutations started by the UI in one run
MaxPageReq == 3      \* HTTP requests of one run of a page
MaxPageRuns == 3     \* runs of the handlers of a page in one run

\* ---- encodings ----
NoToken == 0         \* localStorage.getItem(...) === null
NoUser == 0          \* user === null
NoResponse == 0      \* error.response === undefined (network error, timeout)
NotYet == -1         \* no response seen so far
BearerNull == -2     \* the header 'Bearer null' built from a missing token
ConversationId == 1  \* the id of the conversation the page shows
Tokens == 1..MaxTok
Statuses == {200, 401, 500, NoResponse}

VARIABLES
  reqs,           \* request records, one per axios config
  access_token,   \* localStorage 'access_token'
  refresh_token,  \* localStorage 'refresh_token'
  user,           \* useAuth: user state
  cache,          \* react-query cache: set of populated query keys
  location,       \* window.location.href
  calls,          \* number of operations started by the UI
  logoutsDone,    \* number of completed logoutMutation runs
  invalidated,    \* react-query cache: keys marked invalidated
  isLoading,      \* useAuth: isLoading state
  error,          \* the AxiosError handed to handleError
  apiError,       \* the ApiError that handleError returned for it
  page            \* React state of the mounted page component

vars == <<reqs, access_token, refresh_token, user, cache, location, calls,
          logoutsDone, invalidated, isLoading, error, apiError, page>>

\* ChatPage.tsx 136-139, ConversationsPage.tsx 165-166: the useState cells
\* of the page components, with their initial values; handler is the
\* handler of the page that ran last, runs counts the runs of handlers
Mounted ==
  [message |-> "", isStreaming |-> FALSE, streamingMessage |-> "",
   selectedModel |-> 0,
   deleteDialogOpen |-> FALSE, selectedConversation |-> 0,
   handler |-> "none", runs |-> 0]

\* The whole state as one record, so that the handlers can be composed.
World ==
  [reqs |-> reqs, access |-> access_token, refresh |-> refresh_token,
   user |-> user, cache |-> cache, location |-> location,
   logoutsDone |-> logoutsDone, invalidated |-> invalidated,
   isLoading |-> isLoading, page |-> page]

Ids(W) == 1..Len(W.reqs)

\* refresh calls that have not settled yet
RefreshInFlight(W) ==
  {j \in Ids(W) : W.reqs[j].ep = "refresh" /\ W.reqs[j].pc # "done"}

\* api.ts 36-45: the request interceptor attaches the stored access token
AuthHeader(W) == W.access

\* this.api(config) for a new config: the request goes out on the network
NewReq(W, ep, from, parent) ==
  [ep |-> ep, from |-> from, parent |-> parent, pc |-> "sent",
   retry |-> FALSE, sends |-> 1, auth |-> AuthHeader(W),
   tokenAtSend |-> W.access,
   firstStatus |-> NotYet, lastStatus |-> NotYet, resps |-> 0, body |-> 0,
   result |-> "none", errStatus |-> 0, data |-> 0, waiters |-> 1,
   timedOut |-> FALSE, arg |-> 0, run |-> 0,
   during |-> IF ep = "refresh" THEN RefreshInFlight(W) ELSE {}]

Send(W, ep, from, parent) ==
  [W EXCEPT !.reqs = Append(@, NewReq(W, ep, from, parent))]

\* api.ts 194-200: sendStreamMessage builds its header from a template
\* string, and `Bearer ${null}` is the text 'Bearer null'
FetchAuthHeader(W) == IF W.access = NoToken THEN BearerNull ELSE W.access

\* api.ts 194-202: the streaming request goes out through fetch, past the
\* interceptors of this.api
sendStreamMessage(W) ==
  [W EXCEPT !.reqs = Append(@, [NewReq(W, "stream", "caller", 0)
                                  EXCEPT !.auth = FetchAuthHeader(W)])]

\* the operations that a useQuery of the hooks runs
QueryEps == {"conversations", "conversation", "preferences"}

\* useLLM / useConversation: the queryKey of the useQuery running ep
QueryKey(ep) ==
  CASE ep = "conversations" -> <<"conversations">>
    [] ep = "conversation" -> <<"conversation", ConversationId>>
    [] ep = "preferences" -> <<"preferences">>

QueryKeys == {QueryKey(ep) : ep \in QueryEps}

\* useLLM: the mutations that change a conversation
ConversationMutations ==
  {"createConversation", "updateConversation", "deleteConversation",
   "archiveConversation", "unarchiveConversation", "sendMessage"}

Mutations == ConversationMutations \cup {"updatePreferences"}

\* variant: the conversation mutations name the key of the single
\* conversation instead of the list
InvalidatesFilter_Single(m) ==
  IF m = "updatePreferences" THEN <<"preferences">>
                             ELSE <<"conversation", ConversationId>>

\* useLLM: the key each mutation's onSuccess passes to invalidateQueries
InvalidatesFilter(m) ==
  IF m = "updatePreferences" THEN <<"preferences">> ELSE <<"conversations">>

\* a query key matches a filter that is a prefix of it
Matches(filter, key) ==
  /\ Len(filter) <= Len(key)
  /\ SubSeq(key, 1, Len(filter)) = filter

\* cache.invalidate: marks the matching keys stale
invalidateQueries(W, filter) ==
  [W EXCEPT !.invalidated = @ \cup {k \in QueryKeys : Matches(filter, k)}]

\* variant: the invalidation is done in a handler that runs on every outcome
OnMutationSettled_Always(W, m, ok) ==
  invalidateQueries(W, InvalidatesFilter(m))

\* useLLM 37-117: onSuccess invalidates, onError only shows a toast
OnMutationSettled(W, m, ok) ==
  IF ok THEN invalidateQueries(W, InvalidatesFilter(m)) ELSE W

\* the loads of key k that have not settled yet
Loads(W, k) ==
  {j \in Ids(W) : /\ W.reqs[j].ep \in QueryEps
                  /\ QueryKey(W.reqs[j].ep) = k
                  /\ W.reqs[j].pc # "done"}

\* variant: every fetch runs the loader, whether or not a load is outstanding
fetch_NoShare(W, ep) ==
  LET k == QueryKey(ep)
  IN IF Loads(W, k) = {} /\ k \in W.cache /\ k \notin W.invalidated
       THEN W
       ELSE Send(W, ep, "query", 0)

\* cache.fetch(key, loader): share the outstanding load, else return the
\* cached value unless it was invalidated, else run the loader
fetch(W, ep) ==
  LET k == QueryKey(ep)
  IN IF Loads(W, k) # {}
       THEN LET j == CHOOSE j \in Loads(W, k) : TRUE
            IN [W EXCEPT !.reqs[j].waiters = @ + 1]
       ELSE IF k \in W.cache /\ k \notin W.invalidated
         THEN W
         ELSE Send(W, ep, "query", 0)

\* useAuth 216-222: checkAuth up to its first await
checkAuth(W) ==
  IF W.access = NoToken
    THEN [W EXCEPT !.isLoading = FALSE]
    ELSE Send(W, "profile", "checkAuth", 0)

\* variant: the catch block of checkAuth leaves the store alone
OnProfileSettled_Keep(W, ok, d) ==
  IF ok THEN [W EXCEPT !.user = d, !.isLoading = FALSE]
        ELSE [W EXCEPT !.isLoading = FALSE]

\* useAuth 223-232: checkAuth after getProfile() settled
OnProfileSettled(W, ok, d) ==
  IF ok THEN [W EXCEPT !.user = d, !.isLoading = FALSE]
        ELSE [W EXCEPT !.access = NoToken, !.refresh = NoToken,
                       !.isLoading = FALSE]

\* variant: login stores the access token only
OnLoginSettled_AccessOnly(W, ok, d) ==
  IF ok THEN [W EXCEPT !.access = d, !.user = d] ELSE W

\* variant: a rejected login also removes the tokens of the old session
OnLoginSettled_ClearOnFail(W, ok, d) ==
  IF ok THEN [W EXCEPT !.access = d, !.refresh = d, !.user = d]
        ELSE [W EXCEPT !.access = NoToken, !.refresh = NoToken]

\* api.ts 99-113 and useAuth loginMutation / registerMutation onSuccess
OnLoginSettled(W, ok, d) ==
  IF ok THEN [W EXCEPT !.access = d, !.refresh = d, !.user = d] ELSE W

\* api.ts 75-96: handleError, the status of the normalised error
handleError(status) == IF status = NoResponse THEN 500 ELSE status

\* ---- response bodies of failed requests ----
Undefined == "undefined"     \* the JavaScript value undefined
NoError == [none |-> TRUE]   \* no error object yet

\* a JavaScript value is truthy: neither undefined nor the empty string
Truthy(x) == x \notin {Undefined, ""}

\* the bodies an error response can carry: nothing, a plain string, or an
\* object whose message / detail / error fields are absent, empty or set
ErrorBodies ==
  {[kind |-> "none"]}
  \cup {[kind |-> "string", text |-> t] : t \in {"", "plain text"}}
  \cup [kind : {"object"},
        message : {Undefined, "", "the message"},
        detail : {Undefined, "", "the detail"},
        error : {Undefined, "", "the error"}]

\* the AxiosError objects handleError can be given
AxiosErrors ==
  {[response |-> FALSE]}
  \cup [response : {TRUE}, status : {400, 401, 500}, data : ErrorBodies]

\* api.ts 81: if (error.response?.data)
HasData(e) ==
  /\ e.response
  /\ e.data.kind # "none"
  /\ e.data.kind = "string" => Truthy(e.data.text)

DefaultMessage == "An unexpected error occurred"

\* variant: the detail field is looked at before the message field
ErrorMessage_DetailFirst(e) ==
  IF ~HasData(e) THEN DefaultMessage
  ELSE IF e.data.kind = "string" THEN e.data.text
  ELSE IF Truthy(e.data.detail) THEN e.data.detail
  ELSE IF Truthy(e.data.message) THEN e.data.message
  ELSE IF Truthy(e.data.error) THEN e.data.error
  ELSE DefaultMessage

\* api.ts 77, 81-91: the message of the normalised error
ErrorMessage(e) ==
  IF ~HasData(e) THEN DefaultMessage
  ELSE IF e.data.kind = "string" THEN e.data.text
  ELSE IF Truthy(e.data.message) THEN e.data.message
  ELSE IF Truthy(e.data.detail) THEN e.data.detail
  ELSE IF Truthy(e.data.error) THEN e.data.error
  ELSE DefaultMessage

\* api.ts 75-96: the ApiError that handleError builds; details stays unset
\* when there is no body
NormalisedError(e) ==
  [message |-> ErrorMessage(e),
   status |-> handleError(IF e.response THEN e.status ELSE NoResponse),
   details |-> IF HasData(e) THEN e.data ELSE [kind |-> "none"]]

\* variant: the success handler hands on something other than the response
OnFulfilled_Drop(d) == 0

\* api.ts 49: the success handler of the response interceptor
OnFulfilled(d) == d

\* variant: the _retry flag is not consulted
ShouldRefresh_IgnoreRetry(status, retry) == status = 401

\* variant: every failed response enters the refresh path
ShouldRefresh_AnyError(status, retry) == ~retry

\* api.ts 53: the condition of the refresh-and-retry path
ShouldRefresh(status, retry) == status = 401 /\ ~retry

\* variant: the tokens are removed inside the try block, after the POST
LogoutFinish_OnlyOnAck(W, from, ok) ==
  LET W1 == IF ok THEN [W EXCEPT !.access = NoToken, !.refresh = NoToken]
                  ELSE W
  IN IF from = "hook"
       THEN [W1 EXCEPT !.user = NoUser, !.cache = {}, !.invalidated = {},
                       !.logoutsDone = @ + 1]
       ELSE W1

\* api.ts 128-129 and useAuth logoutMutation.onSuccess: the end of logout()
LogoutFinish(W, from, ok) ==
  LET W1 == [W EXCEPT !.access = NoToken, !.refresh = NoToken]
  IN IF from = "hook"
       THEN [W1 EXCEPT !.user = NoUser, !.cache = {}, !.invalidated = {},
                       !.logoutsDone = @ + 1]
       ELSE W1

\* api.ts 119-127: logout() up to its first await
logout(W, from) ==
  IF W.refresh # NoToken
    THEN Send(W, "logout", from, 0)
    ELSE LogoutFinish(W, from, TRUE)

\* variant: the re-issue is not returned, the handler falls through to the
\* rejection with the original error
OnRefreshOk_NoReturn(W, p, tok) ==
  [W EXCEPT !.access = tok,
            !.reqs[p].sends = @ + 1,
            !.reqs[p].pc = "done",
            !.reqs[p].result = "err",
            !.reqs[p].errStatus = 401]

\* variant: the refresh response is stored as a whole new pair
OnRefreshOk_Rotate(W, p, tok) ==
  LET W1 == [W EXCEPT !.access = tok, !.refresh = tok]
  IN [W1 EXCEPT !.reqs[p].pc = "sent",
                !.reqs[p].sends = @ + 1,
                !.reqs[p].auth = AuthHeader(W1),
                !.reqs[p].tokenAtSend = W1.access]

\* api.ts 60-62: the refresh succeeded; store the access token, re-issue
OnRefreshOk(W, p, tok) ==
  LET W1 == [W EXCEPT !.access = tok]
  IN [W1 EXCEPT !.reqs[p].pc = "sent",
                !.reqs[p].sends = @ + 1,
                !.reqs[p].auth = AuthHeader(W1),
                !.reqs[p].tokenAtSend = W1.access]

\* api.ts 64-67: the refresh failed; logout() is not awaited, then redirect
OnRefreshFailed(W) ==
  [logout(W, "interceptor") EXCEPT !.location = "/login"]

\* variant: the dialog is closed in a finally block
OnDeleteAwaited_Always(W, r, ok) ==
  IF r.from = "ConversationsPage" /\ r.ep = "deleteConversation"
    THEN [W EXCEPT !.page.deleteDialogOpen = FALSE,
                   !.page.selectedConversation = 0]
    ELSE W

\* ConversationsPage.tsx 213-215: handleDeleteConfirm after its await.  The
\* two setters run when deleteConversation resolved; a rejection leaves the
\* handler at the await.
OnDeleteAwaited(W, r, ok) ==
  IF r.from = "ConversationsPage" /\ r.ep = "deleteConversation" /\ ok
    THEN [W EXCEPT !.page.deleteDialogOpen = FALSE,
                   !.page.selectedConversation = 0]
    ELSE W

\* what the awaiting code does with the settled promise of request i
RECURSIVE Settle(_, _, _, _, _)
Settle(W, i, ok, st, d) ==
  LET r == W.reqs[i]
      W1 == [W EXCEPT !.reqs[i].pc = "done",
                      !.reqs[i].result = IF ok THEN "ok" ELSE "err",
                      !.reqs[i].errStatus = IF ok THEN 0 ELSE st,
                      !.reqs[i].data = IF ok THEN d ELSE 0]
  IN CASE r.ep = "refresh" ->
            IF ok
              THEN OnRefreshOk(W1, r.parent, d)
              ELSE Settle(OnRefreshFailed(W1), r.parent, FALSE,
                          handleError(W1.reqs[r.parent].lastStatus), 0)
       [] r.ep = "logout" -> LogoutFinish(W1, r.from, ok)
       [] r.ep \in {"login", "register"} -> OnLoginSettled(W1, ok, d)
       [] r.ep = "profile" -> OnProfileSettled(W1, ok, d)
       [] r.ep \in Mutations ->
            OnDeleteAwaited(OnMutationSettled(W1, r.ep, ok), r, ok)
       [] r.ep \in QueryEps ->
            IF ok
              THEN [W1 EXCEPT !.cache = @ \cup {QueryKey(r.ep)},
                              !.invalidated = @ \ {QueryKey(r.ep)}]
              ELSE W1
       [] OTHER -> W1

\* variant: a missing refresh token is handled like a failed refresh
OnResponse_LogoutWithoutToken(W, i, st, d) ==
  LET r == W.reqs[i]
      W0 == [W EXCEPT !.reqs[i].lastStatus = st,
                      !.reqs[i].firstStatus =
                         IF @ = NotYet THEN st ELSE @,
                      !.reqs[i].resps = @ + 1,
                      !.reqs[i].body = IF st = 200 THEN d ELSE 0]
  IN IF st = 200
       THEN Settle(W0, i, TRUE, 200, OnFulfilled(d))
       ELSE IF ShouldRefresh(st, r.retry)
         THEN LET W1 == [W0 EXCEPT !.reqs[i].retry = TRUE]
              IN IF W1.refresh # NoToken
                   THEN [Send(W1, "refresh", "interceptor", i)
                           EXCEPT !.reqs[i].pc = "awaitRefresh"]
                   ELSE Settle(OnRefreshFailed(W1), i, FALSE,
                               handleError(st), 0)
         ELSE Settle(W0, i, FALSE, handleError(st), 0)
\* api.ts 48-72: the response interceptor, run on the response to request i
OnResponse(W, i, st, d) ==
  LET r == W.reqs[i]
      W0 == [W EXCEPT !.reqs[i].lastStatus = st,
                      !.reqs[i].firstStatus =
                         IF @ = NotYet THEN st ELSE @,
                      !.reqs[i].resps = @ + 1,
                      !.reqs[i].body = IF st = 200 THEN d ELSE 0]
  IN IF st = 200
       THEN Settle(W0, i, TRUE, 200, OnFulfilled(d))
       ELSE IF ShouldRefresh(st, r.retry)
         THEN LET W1 == [W0 EXCEPT !.reqs[i].retry = TRUE]
              IN IF W1.refresh # NoToken
                   THEN [Send(W1, "refresh", "interceptor", i)
                           EXCEPT !.reqs[i].pc = "awaitRefresh"]
                   ELSE Settle(W1, i, FALSE, handleError(st), 0)
         ELSE Settle(W0, i, FALSE, handleError(st), 0)

\* api.ts 204-208: sendStreamMessage after fetch settled; a response that
\* is not ok is thrown as a plain Error, a network failure is the TypeError
\* of fetch
OnStreamResponse(W, i, st, d) ==
  [W EXCEPT !.reqs[i].lastStatus = st,
            !.reqs[i].firstStatus = st,
            !.reqs[i].resps = @ + 1,
            !.reqs[i].body = IF st = 200 THEN d ELSE 0,
            !.reqs[i].pc = "done",
            !.reqs[i].result = IF st = 200 THEN "ok" ELSE "raw",
            !.reqs[i].errStatus = IF st = 200 THEN 0 ELSE st,
            !.reqs[i].data = IF st = 200 THEN d ELSE 0]

\* the response to request i reaches the code that sent it
Arrive(W, i, st, d) ==
  IF W.reqs[i].ep = "stream" THEN OnStreamResponse(W, i, st, d)
                             ELSE OnResponse(W, i, st, d)

\* api.ts 25: the time limit of this.api in milliseconds (0 means none)
timeout == 30000

\* api.ts 23-29, 195: the limit is a default of the axios instance; the
\* fetch call of sendStreamMessage passes no abort signal
HasTimeout_Fetch(ep) == timeout > 0

HasTimeout(ep) == timeout > 0 /\ ep # "stream"

\* axios aborts request i when its time limit has passed: the promise is
\* rejected with an error that carries no response (ECONNABORTED), which
\* the response interceptor handles like any error without a response
OnTimeout(W, i) ==
  [Arrive(W, i, NoResponse, 1) EXCEPT !.reqs[i].timedOut = TRUE]
\* ---- ChatPage ----
\* the texts of the message field: empty, blank, and a message
Texts == {"", " ", "hi"}

\* String.prototype.trim on these texts
trim(t) == IF t = " " THEN "" ELSE t

\* a handler of the page runs
Ran(W, h) == [W EXCEPT !.page.handler = h, !.page.runs = @ + 1]

\* the send-message requests of the page that have not settled
SendsInFlight(W) ==
  {i \in Ids(W) : /\ W.reqs[i].ep = "sendMessage"
                  /\ W.reqs[i].from = "ChatPage"
                  /\ W.reqs[i].pc # "done"}

\* variant: the flag of the mutation is never set
isSendingMessage_Never(W) == FALSE

\* useLLM 168: isSendingMessage is sendMessageMutation.isPending, true from
\* mutateAsync until the promise of the mutationFn settles
isSendingMessage(W) == SendsInFlight(W) # {}

\* ChatPage.tsx 164-187: handleSendMessage up to its await
handleSendMessage(W) ==
  IF trim(W.page.message) = "" \/ isSendingMessage(W) \/ W.page.isStreaming
    THEN W
    ELSE LET W1 == [W EXCEPT !.page.message = ""]
         IN IF W1.page.selectedModel # 0
              THEN [Send(W1, "sendMessage", "ChatPage", 0)
                      EXCEPT !.reqs[Len(W.reqs) + 1].run = W.page.runs]
              ELSE W1

\* ChatPage.tsx 196-200
clearChat(W) ==
  [W EXCEPT !.page.message = "", !.page.streamingMessage = "",
            !.page.isStreaming = FALSE]

\* ChatPage.tsx 386: the message field is disabled
InputDisabled(W) == isSendingMessage(W) \/ W.page.isStreaming

\* ---- ConversationsPage ----
\* the conversations of the list
Conversations == {1, 2}

\* ConversationsPage.tsx 206-209
handleDeleteClick(W, c) ==
  [W EXCEPT !.page.selectedConversation = c,
            !.page.deleteDialogOpen = TRUE]

\* ConversationsPage.tsx 211-213: handleDeleteConfirm up to its await
handleDeleteConfirm(W) ==
  IF W.page.selectedConversation # 0
    THEN [Send(W, "deleteConversation", "ConversationsPage", 0)
            EXCEPT !.reqs[Len(W.reqs) + 1].arg = W.page.selectedConversation,
                   !.reqs[Len(W.reqs) + 1].run = W.page.runs]
    ELSE W

\* ConversationsPage.tsx 219-222
handleDeleteCancel(W) ==
  [W EXCEPT !.page.deleteDialogOpen = FALSE,
            !.page.selectedConversation = 0]

Commit(W, cap) ==
  /\ Len(W.reqs) <= cap
  /\ reqs' = W.reqs
  /\ access_token' = W.access
  /\ refresh_token' = W.refresh
  /\ user' = W.user
  /\ cache' = W.cache
  /\ location' = W.location
  /\ logoutsDone' = W.logoutsDone
  /\ invalidated' = W.invalidated
  /\ isLoading' = W.isLoading
  /\ page' = W.page
  /\ UNCHANGED <<error, apiError>>

\* The page has just been loaded: no request yet, user is null, the cache is
\* empty; localStorage holds either no tokens or the pair left by an earlier
\* session.
Loaded ==
  /\ reqs = <<>>
  /\ \E t \in {NoToken, 1} : access_token = t /\ refresh_token = t
  /\ user = NoUser
  /\ cache = {}
  /\ location = "/"
  /\ calls = 0
  /\ logoutsDone = 0
  /\ invalidated = {}
  /\ isLoading = TRUE
  /\ page = Mounted

Init ==
  /\ Loaded
  /\ error = NoError
  /\ apiError = NoError

\* a domain operation of ApiService sends its request through this.api
Start(ep, cap) ==
  /\ calls < MaxCalls
  /\ calls' = calls + 1
  /\ Commit(Send(World, ep, "caller", 0), cap)

\* useAuth: logout() runs logoutMutation, whose mutationFn is apiService.logout
HookLogout(cap) ==
  /\ calls < MaxCalls
  /\ calls' = calls + 1
  /\ Commit(logout(World, "hook"), cap)

\* the server answers request i with a status of sts (or the request fails
\* without a response) and, on success, a body of ds
DeliverBody(sts, ds, cap) ==
  \E i \in Ids(World), st \in sts, d \in ds :
    /\ reqs[i].pc = "sent"
    /\ st # 200 => d = 1
    /\ calls' = calls
    /\ Commit(Arrive(World, i, st, d), cap)

Deliver(sts, cap) == DeliverBody(sts, Tokens, cap)

\* useLLM: the 'conversations' query runs apiService.getConversations()
StartQuery == Start("conversations", MaxReq)

\* useAuth: login(credentials) runs apiService.login
StartLogin == Start("login", MaxReq)

StartLogout == HookLogout(MaxReq)

Respond == Deliver(Statuses, MaxReq)

Next == StartQuery \/ StartLogin \/ StartLogout \/ Respond

Spec == Init /\ [][Next]_vars

\* Runs in which the UI only issues queries, with room for the refresh and
\* logout calls that two of them can cause.
QueryStart == Start("conversations", MaxDeepReq)

QueryRespond == Deliver(Statuses, MaxDeepReq)

NextQueries == QueryStart \/ QueryRespond

SpecQueries == Init /\ [][NextQueries]_vars

\* Both tokens are invalid: the server answers 401 to every request that
\* reaches it, the refresh and logout calls included.  Under this server
\* the handler of every refresh call starts a further refresh call, so the
\* chain of handlers waiting for a refresh call grows without end.  The
\* model keeps MaxNest refresh calls per chain: when the innermost one is
\* answered 401, the record of the handler above it is given to the new
\* refresh call (no handler of the chain ever resumes under this server).
InvalidQuery == Start("conversations", MaxCalls * (MaxNest + 1))

InvalidLogout == HookLogout(MaxCalls * (MaxNest + 1))

\* the number of refresh calls between request i and its domain request
RECURSIVE Nest(_, _)
Nest(W, i) == IF W.reqs[i].parent = 0 THEN 0 ELSE 1 + Nest(W, W.reqs[i].parent)

\* the handler of request i, answered 401, would start a refresh call
StartsRefresh(W, i) ==
  ShouldRefresh(401, W.reqs[i].retry) /\ W.refresh # NoToken

RespondInvalid ==
  \E i \in Ids(World) :
    /\ reqs[i].pc = "sent"
    /\ ~(StartsRefresh(World, i) /\ Nest(World, i) >= MaxNest)
    /\ calls' = calls
    /\ Commit(OnResponse(World, i, 401, 1), MaxCalls * (MaxNest + 1))

RespondInvalidDeep ==
  \E i \in Ids(World) :
    /\ reqs[i].pc = "sent"
    /\ StartsRefresh(World, i) /\ Nest(World, i) >= MaxNest
    /\ LET p == reqs[i].parent
           W == [World EXCEPT
                   !.reqs[i].lastStatus = 401,
                   !.reqs[i].firstStatus = IF @ = NotYet THEN 401 ELSE @,
                   !.reqs[i].resps = @ + 1,
                   !.reqs[i].retry = TRUE,
                   !.reqs[i].pc = "awaitRefresh",
                   !.reqs[i].parent = reqs[p].parent,
                   !.reqs[p].pc = "done"]
       IN reqs' = [W.reqs EXCEPT ![p] = NewReq(W, "refresh", "interceptor", i)]
    /\ UNCHANGED <<access_token, refresh_token, user, cache, location,
                   calls, logoutsDone, invalidated, isLoading,
                   error, apiError, page>>

NextInvalid ==
  InvalidQuery \/ InvalidLogout \/ RespondInvalid \/ RespondInvalidDeep

\* api.ts 25 (timeout: 30000): every request that was sent settles, so the
\* arrival of responses is weakly fair; the UI is free to stay idle.
\* The page is loaded with a store that an earlier session left without a
\* refresh token: localStorage outlives the page, and the refresh path can
\* leave access_token alone in it.
LoadedWithoutRefresh ==
  /\ reqs = <<>>
  /\ access_token \in {NoToken, 1}
  /\ refresh_token = NoToken
  /\ user = NoUser
  /\ cache = {}
  /\ location = "/"
  /\ calls = 0
  /\ logoutsDone = 0
  /\ invalidated = {}
  /\ isLoading = TRUE
  /\ page = Mounted
  /\ error = NoError
  /\ apiError = NoError

SpecWithoutRefresh == LoadedWithoutRefresh /\ [][Next]_vars
SpecBothInvalid ==
  /\ Init
  /\ [][NextInvalid]_vars
  /\ WF_vars(RespondInvalid)
  /\ WF_vars(RespondInvalidDeep)

\* The page is loaded while both stored tokens are invalid.  The effect of
\* the auth provider runs checkAuth when the provider mounts, before the
\* user can act; the server answers 401 throughout.
StartupCheckAuth ==
  /\ isLoading /\ \A j \in Ids(World) : reqs[j].ep # "profile"
  /\ calls < MaxCalls
  /\ calls' = calls + 1
  /\ Commit(checkAuth(World), MaxCalls * (MaxNest + 1))

StartupQuery ==
  /\ ~isLoading \/ \E j \in Ids(World) : reqs[j].ep = "profile"
  /\ InvalidQuery

StartupLogout ==
  /\ ~isLoading \/ \E j \in Ids(World) : reqs[j].ep = "profile"
  /\ InvalidLogout

NextStartup ==
  \/ StartupCheckAuth
  \/ StartupQuery
  \/ StartupLogout
  \/ RespondInvalid
  \/ RespondInvalidDeep

\* useAuth 235-237: the effect runs once the provider is mounted; api.ts 25:
\* every request that was sent is answered or ended by the time limit
SpecStartup ==
  /\ Init
  /\ [][NextStartup]_vars
  /\ WF_vars(StartupCheckAuth)
  /\ WF_vars(RespondInvalid)
  /\ WF_vars(RespondInvalidDeep)
\* an operation started by the UI, with its own bounds
Call(W, maxCalls, cap) ==
  /\ calls < maxCalls
  /\ calls' = calls + 1
  /\ Commit(W, cap)

\* AuthContext / useAuth 235-237: checkAuth has run up to its first await
CheckAuthStarted == ~isLoading \/ \E j \in Ids(World) : reqs[j].ep = "profile"

\* Runs of the session operations.  The auth provider mounts first: its
\* effect runs checkAuth once, before the user can act.
SessionCheckAuth ==
  /\ ~CheckAuthStarted
  /\ calls' = calls
  /\ Commit(checkAuth(World), MaxSessReq)

\* an operation of ApiService that sends one request through this.api
SessionOps == {"login", "register", "conversations", "sendMessage"}

SessionStart ==
  /\ CheckAuthStarted
  /\ \E ep \in SessionOps :
       Call(Send(World, ep, "caller", 0), MaxSessCalls, MaxSessReq)

SessionStream ==
  /\ CheckAuthStarted
  /\ Call(sendStreamMessage(World), MaxSessCalls, MaxSessReq)

SessionLogout ==
  /\ CheckAuthStarted
  /\ Call(logout(World, "hook"), MaxSessCalls, MaxSessReq)

\* the server answers; for the session a request that fails without a
\* response takes the same paths as one answered 500
SessionRespond == Deliver({200, 401, 500}, MaxSessReq)

NextSession ==
  \/ SessionCheckAuth
  \/ SessionStart
  \/ SessionLogout
  \/ SessionRespond

SpecSession == Init /\ [][NextSession]_vars

\* a request fails without a response
SessionNetworkFails == Deliver({NoResponse}, MaxSessReq)

\* The same runs, with the streaming chat request among the operations and
\* with network failures.
NextStream == NextSession \/ SessionStream \/ SessionNetworkFails

SpecStream == Init /\ [][NextStream]_vars
\* Runs in which requests may be slow.  The model keeps no clock: a request
\* in flight may be older than the limit at any step.
TimeoutStream == Call(sendStreamMessage(World), MaxCalls, MaxReq)

TimeLimitPasses ==
  \E i \in Ids(World) :
    /\ reqs[i].pc = "sent"
    /\ HasTimeout(reqs[i].ep)
    /\ calls' = calls
    /\ Commit(OnTimeout(World, i), MaxReq)

NextTimeout == StartQuery \/ TimeoutStream \/ Respond \/ TimeLimitPasses

SpecTimeout == Init /\ [][NextTimeout]_vars

\* Runs of the mutations of useLLM next to its 'conversations' query.
CacheFetch ==
  Call(fetch(World, "conversations"), MaxCacheCalls, MaxCacheReq)

CacheMutate ==
  \E m \in Mutations :
    /\ Cardinality({j \in Ids(World) : reqs[j].ep \in Mutations}) < MaxMutations
    /\ calls' = calls
    /\ Commit(Send(World, m, "caller", 0), MaxCacheReq)

\* the cache keeps no more of a response than that it arrived: one body and
\* one kind of failure besides the 401 are enough here
CacheRespond == DeliverBody({200, 401, 500}, {1}, MaxCacheReq)

NextCache == CacheFetch \/ CacheMutate \/ CacheRespond

SpecCache == Init /\ [][NextCache]_vars

\* Runs of the queries of useLLM and useConversation alone.
FetchQuery ==
  \E ep \in QueryEps : Call(fetch(World, ep), MaxCacheCalls, MaxCacheReq)

FetchRespond == Deliver(Statuses, MaxCacheReq)

NextFetch == FetchQuery \/ FetchRespond

SpecFetch == Init /\ [][NextFetch]_vars

\* Runs of the chat page.  A run of a handler is counted in page.runs; the
\* session layer below the page is the one of the other runs.  The
\* handlers are run in every state of the page, also where the page
\* disables the control that runs them.
PageRun(W, cap) ==
  /\ page.runs < MaxPageRuns
  /\ calls' = calls
  /\ Commit(W, cap)

\* ChatPage.tsx 384: onChange of the message field
ChatType ==
  /\ ~InputDisabled(World)
  /\ \E t \in Texts :
       /\ t # page.message
       /\ calls' = calls
       /\ Commit([World EXCEPT !.page.message = t,
                               !.page.handler = "onChange"], MaxPageReq)

\* ChatPage.tsx 255: onChange of the model select
ChatSelectModel ==
  /\ page.selectedModel = 0
  /\ calls' = calls
  /\ Commit([World EXCEPT !.page.selectedModel = 1,
                          !.page.handler = "onChange"], MaxPageReq)

\* ChatPage.tsx 189-194, 392: Enter in the field or a click on the button
ChatSend ==
  PageRun(handleSendMessage(Ran(World, "handleSendMessage")), MaxPageReq)

ChatClear == PageRun(clearChat(Ran(World, "clearChat")), MaxPageReq)

ChatRespond == Deliver({200, 401, 500}, MaxPageReq)

NextChat ==
  ChatType \/ ChatSelectModel \/ ChatSend \/ ChatClear \/ ChatRespond

SpecChat == Init /\ [][NextChat]_vars

\* Runs of the conversations page.  The handlers are run in every state of
\* the page, also where the page disables the control that runs them.
ConvDeleteClick ==
  \E c \in Conversations :
    PageRun(handleDeleteClick(Ran(World, "handleDeleteClick"), c),
            MaxPageReq)

ConvDeleteConfirm ==
  PageRun(handleDeleteConfirm(Ran(World, "handleDeleteConfirm")), MaxPageReq)

ConvDeleteCancel ==
  PageRun(handleDeleteCancel(Ran(World, "handleDeleteCancel")), MaxPageReq)

ConvRespond == Deliver({200, 401, 500}, MaxPageReq)

NextConversations ==
  ConvDeleteClick \/ ConvDeleteConfirm \/ ConvDeleteCancel \/ ConvRespond

SpecConversations == Init /\ [][NextConversations]_vars

\* handleError applied to each error it can be given.
InitErrors ==
  /\ Loaded
  /\ error \in AxiosErrors
  /\ apiError = NoError

\* api.ts 70: this.handleError(error)
Normalise ==
  /\ apiError = NoError
  /\ apiError' = NormalisedError(error)
  /\ UNCHANGED <<reqs, access_token, refresh_token, user, cache, location,
                 calls, logoutsDone, invalidated, isLoading, error,
                 page>>

SpecErrors == InitErrors /\ [][Normalise]_vars

\* ---------------------------------------------------------------------
\* Properties
\* ---------------------------------------------------------------------

\* the refresh calls issued by the handler of request i
Kids(i) == {j \in Ids(World) : reqs[j].ep = "refresh" /\ reqs[j].parent = i}

\* the step creates no request
NoneCreated == Len(reqs') = Len(reqs)

\* the requests the step sends: first issued, or re-issued after a refresh
SentNow ==
  {j \in 1..Len(reqs') : j > Len(reqs) \/ reqs'[j].sends > reqs[j].sends}

\* the step settles request i
SettlesNow(i) == reqs[i].pc # "done" /\ reqs'[i].pc = "done"

IsLogin(ep) == ep \in {"login", "register"}

\* C1: a request whose first attempt fails with 401 and whose refresh call
\* succeeds causes exactly one refresh call and exactly one re-issue; it
\* settles only on the response to the re-issue, and if that response is a
\* success the caller receives it (and not the original 401).
C1_OneRefreshOneRetry ==
  \A i \in Ids(World) :
    (/\ reqs[i].firstStatus = 401
     /\ \E j \in Kids(i) : reqs[j].firstStatus = 200)
    => /\ Cardinality(Kids(i)) = 1
       /\ reqs[i].sends = 2
       /\ reqs[i].pc \in {"sent", "done"}
       /\ reqs[i].pc = "sent" => reqs[i].resps = 1 /\ reqs[i].result = "none"
       /\ reqs[i].pc = "done" => reqs[i].resps = 2
       /\ (reqs[i].pc = "done" /\ reqs[i].lastStatus = 200)
            => reqs[i].result = "ok" /\ reqs[i].data = reqs[i].body

C1_Witness ==
  \E i \in Ids(World) :
    /\ reqs[i].ep = "conversations"
    /\ reqs[i].firstStatus = 401
    /\ \E j \in Kids(i) : reqs[j].firstStatus = 200
    /\ reqs[i].pc = "done"
    /\ reqs[i].lastStatus = 200
    /\ reqs[i].result = "ok"

\* C2: at most one token-refresh call is in flight at any time.
C2_SingleFlightRefresh ==
  Cardinality({j \in Ids(World) :
                 reqs[j].ep = "refresh" /\ reqs[j].pc = "sent"}) <= 1

\* C3: at most one retry per request: no request is sent more than twice or
\* has more than one refresh call made for it, and a retried request that
\* fails again with 401 is rejected with the normalised 401 error.
C3_AtMostOneRetry ==
  \A i \in Ids(World) :
    /\ reqs[i].sends <= 2
    /\ Cardinality(Kids(i)) <= 1
    /\ (reqs[i].resps >= 2 /\ reqs[i].lastStatus = 401)
         => /\ reqs[i].pc = "done"
            /\ reqs[i].result = "err"
            /\ reqs[i].errStatus = 401
            /\ reqs[i].resps = 2

C3_Witness ==
  \E i \in Ids(World) :
    /\ reqs[i].retry
    /\ reqs[i].sends = 2
    /\ reqs[i].resps = 2
    /\ reqs[i].lastStatus = 401
    /\ reqs[i].result = "err"

\* C4: in the step in which the handler of a request gives up because its
\* refresh call failed, both tokens are removed from the store, the
\* location is /login, and the caller is rejected with the original 401.
C4_RefreshFailureClearsAndRejects ==
  [][\A i \in Ids(World) :
       (reqs[i].pc = "awaitRefresh" /\ reqs'[i].pc = "done")
       => /\ access_token' = NoToken
          /\ refresh_token' = NoToken
          /\ location' = "/login"
          /\ reqs'[i].result = "err"
          /\ reqs'[i].errStatus = 401]_vars

\* C5: the refresh request is never put through the refresh-and-retry
\* path: it is never marked _retry, never re-sent, and no refresh call is
\* made on behalf of a refresh call.
C5_RefreshNeverRetried ==
  \A j \in Ids(World) :
    reqs[j].ep = "refresh"
    => ~reqs[j].retry /\ reqs[j].sends = 1 /\ Kids(j) = {}

\* C6: once a request has failed with 401 and the refresh call made for it
\* has been answered 401 as well, the session eventually is logged out:
\* both tokens absent, the query cache empty, user null.
LoggedOut ==
  /\ access_token = NoToken
  /\ refresh_token = NoToken
  /\ cache = {}
  /\ user = NoUser

BothInvalid ==
  \E i \in Ids(World) :
    /\ reqs[i].ep = "conversations"
    /\ reqs[i].firstStatus = 401
    /\ \E j \in Kids(i) : reqs[j].firstStatus = 401

C6_BothInvalidLeadsToLogout == BothInvalid ~> LoggedOut

\* C7: two requests whose refresh calls overlapped in time never end
\* differently: one retried after a successful refresh, the other rejected
\* after a failed refresh.
C7_SharedRefreshOutcome ==
  \A a, b \in Ids(World) :
    \A ca \in Kids(a), cb \in Kids(b) :
      (/\ a # b
       /\ reqs[a].ep # "refresh" /\ reqs[b].ep # "refresh"
       /\ (ca \in reqs[cb].during \/ cb \in reqs[ca].during))
      => ~(/\ reqs[ca].result = "ok"
           /\ reqs[a].sends = 2
           /\ reqs[cb].result = "err"
           /\ reqs[b].result = "err")

\* C8: a domain request whose first response is a success is sent once, has
\* no refresh call made for it, hands the response body unchanged to its
\* caller, and the step that delivers it leaves both tokens as they were.
C8_SuccessPassesThrough ==
  /\ [](\A i \in Ids(World) :
          (reqs[i].ep = "conversations" /\ reqs[i].firstStatus = 200)
          => /\ reqs[i].pc = "done"
             /\ reqs[i].sends = 1
             /\ reqs[i].resps = 1
             /\ Kids(i) = {}
             /\ reqs[i].result = "ok"
             /\ reqs[i].data = reqs[i].body)
  /\ [][\A i \in Ids(World) :
          (/\ reqs[i].ep = "conversations"
           /\ reqs[i].firstStatus = NotYet
           /\ reqs'[i].firstStatus = 200)
          => /\ access_token' = access_token
             /\ refresh_token' = refresh_token
             /\ NoneCreated]_vars

C8_Witness ==
  \E i \in Ids(World) :
    /\ reqs[i].ep = "conversations"
    /\ reqs[i].firstStatus = 200
    /\ reqs[i].result = "ok"
    /\ reqs[i].data = 2
    /\ access_token # NoToken

\* a response that is neither a success nor a 401
OtherFailure(st) == st \in {500, NoResponse}

C10_LogoutAlwaysTearsDown ==
  [][logoutsDone' > logoutsDone
       => /\ access_token' = NoToken
          /\ refresh_token' = NoToken
          /\ user' = NoUser
          /\ cache' = {}]_vars

C10_Witness ==
  \E i \in Ids(World) :
    /\ reqs[i].ep = "logout"
    /\ reqs[i].from = "hook"
    /\ reqs[i].pc = "done"
    /\ reqs[i].result = "err"
    /\ logoutsDone > 0
    /\ access_token = NoToken
    /\ refresh_token = NoToken
    /\ user = NoUser

C12_AuthorizationIffToken ==
  \A j \in Ids(World) :
    (reqs[j].auth # NoToken) <=> (reqs[j].tokenAtSend # NoToken)

\* the step changes the stored token pair
TokensChange ==
  access_token' # access_token \/ refresh_token' # refresh_token

\* the step runs the refresh path: a refresh call settles
ByRefreshPath ==
  \E j \in Ids(World) : reqs[j].ep = "refresh" /\ SettlesNow(j)

\* the step completes a successful login or registration
ByLogin ==
  \E i \in Ids(World) :
    IsLogin(reqs[i].ep) /\ SettlesNow(i) /\ reqs'[i].result = "ok"

\* the step completes a logout
ByLogout ==
  \/ logoutsDone' > logoutsDone
  \/ \E i \in Ids(World) : reqs[i].ep = "logout" /\ SettlesNow(i)

\* the step completes a startup profile check whose request failed
ByCheckAuth ==
  \E i \in Ids(World) :
    reqs[i].ep = "profile" /\ SettlesNow(i) /\ reqs'[i].result = "err"

C14_RefreshReplacesAccessOnly ==
  [][\A j \in Ids(World) :
       (reqs[j].ep = "refresh" /\ SettlesNow(j) /\ reqs'[j].result = "ok")
       => /\ refresh_token' = refresh_token
          /\ access_token' = reqs'[j].body
          /\ access_token' # NoToken]_vars

C14_Witness ==
  \E j \in Ids(World) :
    /\ reqs[j].ep = "refresh"
    /\ reqs[j].result = "ok"
    /\ reqs[j].body = 2
    /\ access_token = 2
    /\ refresh_token = 1

\* the step completes mutation i with the given outcome
MutationSettles(i, outcome) ==
  /\ reqs[i].ep \in Mutations
  /\ SettlesNow(i)
  /\ reqs'[i].result = outcome

\* C15: a key becomes invalidated only in the step in which a mutation that
\* names it completes successfully; the step that sends a mutation, every
\* step while it is in flight, and the step in which it fails invalidate
\* nothing.
C15_InvalidationAfterSuccess ==
  [][/\ \A k \in QueryKeys :
          (k \in invalidated' /\ k \notin invalidated)
          => \E i \in Ids(World) :
               /\ MutationSettles(i, "ok")
               /\ Matches(InvalidatesFilter(reqs[i].ep), k)
     /\ \A i \in Ids(World) :
          MutationSettles(i, "err") => invalidated' = invalidated]_vars

C15_Witness ==
  \E i \in Ids(World) :
    /\ reqs[i].ep = "updatePreferences"
    /\ reqs[i].firstStatus = 401
    /\ reqs[i].sends = 2
    /\ reqs[i].result = "ok"
    /\ invalidated = {<<"preferences">>}

C17_ListAndConversationInvalidated ==
  [][\A i \in Ids(World) :
       (/\ reqs[i].ep \in {"sendMessage", "archiveConversation"}
        /\ MutationSettles(i, "ok"))
       => /\ <<"conversations">> \in invalidated'
          /\ <<"conversation", ConversationId>> \in invalidated']_vars

\* C18: a key never has more than one load outstanding: a fetch made while
\* a load of its key is outstanding sends no request and joins that load,
\* whose one result all its fetches receive.
C18_OneLoadPerKey ==
  /\ [](\A k \in QueryKeys : Cardinality(Loads(World, k)) <= 1)
  /\ [][\A j \in Ids(World) :
          reqs'[j].waiters > reqs[j].waiters
          => /\ reqs[j].pc # "done"
             /\ NoneCreated]_vars

C18_Witness ==
  \E j \in Ids(World) :
    /\ reqs[j].ep = "conversation"
    /\ reqs[j].waiters = 2
    /\ reqs[j].sends = 1
    /\ reqs[j].result = "ok"
    /\ <<"conversation", ConversationId>> \in cache
    /\ \A i \in Ids(World) : reqs[i].ep = "conversation" => i = j

\* a body, or a field of it, that is there and not empty
Present(x) == x # Undefined /\ x # ""

\* C19: for an error response the message of the normalised error is the
\* body if that is a plain (non-empty) string, else its message field if
\* it has one, else its detail field, else its error field, else the
\* generic default; the status is the status of the response; the details
\* are the body of the response (unset when the response has no body).
C19_MessageOrder ==
  (error.response /\ apiError # NoError)
  => LET body == error.data
         isText == body.kind = "string" /\ Present(body.text)
         isObject == body.kind = "object"
     IN /\ isText => apiError.message = body.text
        /\ (isObject /\ Present(body.message))
             => apiError.message = body.message
        /\ (isObject /\ ~Present(body.message) /\ Present(body.detail))
             => apiError.message = body.detail
        /\ (/\ isObject /\ ~Present(body.message)
            /\ ~Present(body.detail) /\ Present(body.error))
             => apiError.message = body.error
        /\ (\/ ~isText /\ ~isObject
            \/ /\ isObject /\ ~Present(body.message)
               /\ ~Present(body.detail) /\ ~Present(body.error))
             => apiError.message = "An unexpected error occurred"
        /\ apiError.status = error.status
        /\ (isText \/ isObject) => apiError.details = body
        /\ ~(isText \/ isObject) => apiError.details = [kind |-> "none"]

C19_Witness ==
  /\ error.response
  /\ error.status = 400
  /\ error.data.kind = "object"
  /\ error.data.message = Undefined
  /\ error.data.detail = "the detail"
  /\ error.data.error = "the error"
  /\ apiError # NoError
  /\ apiError.message = "the detail"
  /\ apiError.status = 400
  /\ apiError.details = error.data

\* C20: every operation started by a caller, the streaming chat operation
\* and logout included, ends for the caller either with a success value or
\* with a normalised error; none ends with an error that was not
\* normalised.
C20_SuccessOrNormalisedError ==
  \A i \in Ids(World) :
    (reqs[i].from \in {"caller", "hook", "query", "checkAuth"}
     /\ reqs[i].pc = "done")
    => reqs[i].result \in {"ok", "err"}

\* ---- C21 ----
\* C21 (as stated): no request is ended by the client itself after a
\* built-in time limit; a request ends only with a response or a network
\* failure.
C21_NoImplicitTimeout ==
  \A i \in Ids(World) : ~reqs[i].timedOut

\* C21 (amended): only a request sent through this.api is ended by the time
\* limit; it then has no response and its caller is rejected with the
\* normalised error of status 500.  The streaming request is never ended by
\* the client.
C21_OnlyApiRequestsTimeOut ==
  \A i \in Ids(World) :
    /\ reqs[i].timedOut =>
         /\ reqs[i].ep # "stream"
         /\ reqs[i].lastStatus = NoResponse
         /\ reqs[i].pc = "done" /\ reqs[i].result = "err"
         /\ reqs[i].errStatus = 500
    /\ reqs[i].ep = "stream" /\ reqs[i].pc = "done" =>
         reqs[i].resps = 1 /\ ~reqs[i].timedOut

\* a query was ended by the time limit while a streaming request, sent
\* before it, is still waiting
C21_Witness ==
  \E i, j \in Ids(World) :
    /\ j < i
    /\ reqs[i].ep = "conversations" /\ reqs[i].timedOut
    /\ reqs[i].result = "err" /\ reqs[i].errStatus = 500
    /\ reqs[j].ep = "stream" /\ reqs[j].pc = "sent"

\* ---- C22 ----
\* C22: when every HTTP call is answered, every request made through the
\* client settles after finitely many calls, also when the refresh and
\* logout endpoints keep answering 401.
C22_EveryRequestSettles ==
  \A n \in 1..(MaxCalls * (MaxNest + 1)) :
    (/\ n \in Ids(World)
     /\ reqs[n].from \in {"caller", "hook"}
     /\ reqs[n].pc # "done")
      ~> (n \in Ids(World) /\ reqs[n].pc = "done")

\* ---- C23 ----
\* some logout (of the hook or of the interceptor) has run to its end
LogoutCompleted ==
  \/ logoutsDone > 0
  \/ \E i \in Ids(World) : reqs[i].ep = "logout" /\ reqs[i].pc = "done"

\* C23: once a logout has completed, access_token and refresh_token stay
\* absent until a login or registration succeeds; no response to a request
\* or refresh call that was in flight puts a token back.
C23_LogoutIsFinal ==
  [][(/\ LogoutCompleted
      /\ access_token = NoToken /\ refresh_token = NoToken
      /\ TokensChange)
       => ByLogin]_vars

\* ---- C24 ----
\* C24: the store holds either both access_token and refresh_token or
\* neither of them, in every reachable state.
C24_BothOrNeither ==
  (access_token = NoToken) <=> (refresh_token = NoToken)

\* ---- C25 ----
\* C25: a request answered 401 while no refresh token is stored causes no
\* refresh call, is not sent again, causes no logout and no redirect, leaves
\* the stored access token in place and is rejected with the normalised
\* 401 error.
C25_NoRefreshTokenRejects ==
  [][\A i \in Ids(World) :
       (/\ reqs[i].ep \in {"conversations", "login"}
        /\ reqs[i].pc = "sent" /\ ~reqs[i].retry
        /\ refresh_token = NoToken
        /\ reqs'[i].resps = reqs[i].resps + 1
        /\ reqs'[i].lastStatus = 401)
         => /\ NoneCreated
            /\ reqs'[i].sends = reqs[i].sends
            /\ location' = location
            /\ logoutsDone' = logoutsDone /\ user' = user
            /\ access_token' = access_token
            /\ refresh_token' = refresh_token
            /\ reqs'[i].pc = "done" /\ reqs'[i].result = "err"
            /\ reqs'[i].errStatus = 401]_vars

\* a query sent with a stored access token was answered 401 with no refresh
\* token in the store: it was rejected at once and the access token is
\* still there
C25_Witness ==
  \E i \in Ids(World) :
    /\ reqs[i].ep = "conversations"
    /\ reqs[i].auth # NoToken
    /\ reqs[i].firstStatus = 401 /\ reqs[i].resps = 1 /\ reqs[i].sends = 1
    /\ reqs[i].result = "err" /\ reqs[i].errStatus = 401
    /\ Kids(i) = {}
    /\ access_token = reqs[i].auth /\ refresh_token = NoToken
    /\ location = "/"

\* ---- C26 ----
\* C26: a login attempt that the server rejects, with 401 or another
\* status, leaves access_token and refresh_token as they were and causes no
\* refresh call, no logout call and no redirect, whatever the store held.
C26_RejectedLoginChangesNothing ==
  [][\A i \in Ids(World) :
       (/\ reqs[i].ep = "login" /\ reqs[i].pc = "sent"
        /\ reqs'[i].resps = reqs[i].resps + 1
        /\ reqs'[i].lastStatus \in {401, 500})
         => /\ NoneCreated
            /\ access_token' = access_token
            /\ refresh_token' = refresh_token
            /\ location' = location]_vars

\* ---- C27 ----
\* the step in which the startup check finishes
CheckAuthFinishes == isLoading /\ ~isLoading'

\* the profile request of the startup check has the given result after the
\* step
ProfileResult(res) ==
  \E i \in Ids(World) : reqs[i].ep = "profile" /\ reqs'[i].result = res

\* C27: the startup check always finishes, with isLoading = false; it sends
\* GET /auth/profile/ only if an access token is stored; when it finishes
\* the user is authenticated exactly if the profile request succeeded, and
\* if the profile request failed both tokens are absent.
C27_StartupCheck ==
  /\ <>(~isLoading)
  /\ [](\A i \in Ids(World) :
          reqs[i].ep = "profile" => reqs[i].tokenAtSend # NoToken)
  /\ [][CheckAuthFinishes =>
          /\ (user' # NoUser) <=> ProfileResult("ok")
          /\ ProfileResult("err") =>
               access_token' = NoToken /\ refresh_token' = NoToken]_vars

\* ---- C28 ----
\* the step is a run of handler h of the page
RunsNow(h) == page'.runs = page.runs + 1 /\ page'.handler = h

\* C28: the chat page never has more than one send-message request in
\* flight; handleSendMessage issues no request when the trimmed input is
\* empty, when a send is pending or when a stream is in progress.
C28_OneSendInFlight ==
  /\ [](Cardinality(SendsInFlight(World)) <= 1)
  /\ [][(/\ RunsNow("handleSendMessage")
         /\ \/ trim(page.message) = ""
            \/ SendsInFlight(World) # {}
            \/ page.isStreaming)
          => reqs' = reqs]_vars

\* handleSendMessage has run again while the request of an earlier run was
\* in flight, and that request is still the only one of the page
C28_Witness ==
  \E i \in SendsInFlight(World) :
    /\ reqs[i].run < page.runs
    /\ page.handler = "handleSendMessage"
    /\ \A j \in Ids(World) : reqs[j].from = "ChatPage" => j = i

\* ---- C29 ----
\* C29: the typed message is cleared only when a send-message request is
\* issued for it; a run of handleSendMessage with no model selected keeps
\* the text and sends nothing.
C29_ClearedOnlyWhenSent ==
  [][RunsNow("handleSendMessage") =>
       /\ page'.message # page.message => Len(reqs') = Len(reqs) + 1
       /\ page.selectedModel = 0 =>
            page'.message = page.message /\ reqs' = reqs]_vars

\* ---- C30 ----
\* the delete requests of the conversations page
IsDelete(r) == r.ep = "deleteConversation" /\ r.from = "ConversationsPage"

\* C30: a delete request is issued only by handleDeleteConfirm and for the
\* conversation that handleDeleteClick selected; handleDeleteCancel issues
\* no request; apart from handleDeleteCancel the dialog is closed and the
\* selection reset only when a delete succeeded, and a failed delete leaves
\* the dialog open with the selection kept.
C30_DeleteDialog ==
  [][/\ \A j \in Ids([reqs |-> reqs']) \ Ids(World) :
          IsDelete(reqs'[j]) =>
            /\ RunsNow("handleDeleteConfirm")
            /\ page.selectedConversation # 0
            /\ reqs'[j].arg = page.selectedConversation
     /\ page'.selectedConversation \notin {0, page.selectedConversation} =>
          RunsNow("handleDeleteClick")
     /\ RunsNow("handleDeleteCancel") => reqs' = reqs
     /\ (\/ page.deleteDialogOpen /\ ~page'.deleteDialogOpen
         \/ page.selectedConversation # 0 /\ page'.selectedConversation = 0)
          => \/ RunsNow("handleDeleteCancel")
             \/ \E i \in Ids(World) :
                  IsDelete(reqs[i]) /\ SettlesNow(i) /\ reqs'[i].result = "ok"
     /\ \A i \in Ids(World) :
          IsDelete(reqs[i]) /\ SettlesNow(i) /\ reqs'[i].result = "err" =>
            page' = page]_vars

\* a delete of the selected conversation failed and left the dialog open;
\* the second one, confirmed in the same dialog, succeeded and closed it
C30_Witness ==
  \E i, j \in Ids(World) :
    /\ IsDelete(reqs[i]) /\ IsDelete(reqs[j])
    /\ reqs[i].run < reqs[j].run /\ reqs[i].arg = reqs[j].arg
    /\ reqs[i].result = "err" /\ reqs[j].result = "ok"
    /\ reqs[j].resps > 0 /\ reqs[i].pc = "done"
    /\ ~page.deleteDialogOpen /\ page.selectedConversation = 0
    /\ page.handler = "handleDeleteConfirm"

====
